---- MODULE Spec2Model ----
(***************************************************************************)
(* kdash: the dual-loop architecture of src/main.rs.                       *)
(*                                                                         *)
(* The main thread validates the command line, builds the shared App,      *)
(* spawns the network thread (start_tokio) and then runs the render loop   *)
(* (start_ui).  The network thread obtains the cluster client and drains   *)
(* the io channel one event at a time.  app.rs, cli.rs, event.rs,          *)
(* handlers.rs and network.rs are not part of the sources at hand: what    *)
(* they do is modelled from the written specification and marked so.       *)
(***************************************************************************)
EXTENDS Integers, Sequences, FiniteSets, TLC

VARIABLES
  debug_assertions,  \* cfg!(debug_assertions): the build configuration
  cli,               \* Cli { tick_rate, poll_rate }
  mainPc,            \* position of the main thread (main, then start_ui)
  app,               \* the App behind Arc<Mutex<App>>
  lock,              \* holder of the tokio Mutex: "free", "ui", "worker"
  io_queue,          \* the mpsc channel sync_io_tx -> sync_io_rx
  workerPc,          \* position of the network thread (start_tokio)
  io_event,          \* the IoEvent the network thread is handling, and its result
  term,              \* the terminal: raw mode, alternate screen, mouse, cursor
  liveSize,          \* what terminal.backend().size() reports
  is_first_render,   \* start_ui's local flag
  diag,              \* what panic_hook printed, and the terminal mode at that time
  ticks,             \* history: Tick events consumed by the loop
  enqLog,            \* history: ids of the commands sent, in send order
  begunLog,          \* history: ids of the commands received by the worker
  doneLog,           \* history: ids of the commands whose handling completed
  lastEvent,         \* history: how the last consumed event was dispatched
  resizeLog,         \* history: the resize the size check of this iteration saw
  sl,                \* one Selectable List: items, cursor, and the last call
  pendingKey,        \* the key that arrived in the current poll window, if any
  consumed           \* history: an earlier iteration has consumed its event

vars == <<debug_assertions, cli, mainPc, app, lock, io_queue, workerPc, io_event,
          term, liveSize, is_first_render, diag, ticks, enqLog, begunLog, doneLog,
          lastEvent, resizeLog, sl, pendingKey, consumed>>

\* the variables of the two threads, which the list operations leave alone
progVars == <<debug_assertions, cli, mainPc, app, lock, io_queue, workerPc,
              io_event, term, liveSize, is_first_render, diag, ticks, enqLog,
              begunLog, doneLog, lastEvent, resizeLog, pendingKey, consumed>>

None == "none"

(***************************************************************************)
(* Bounds of the model and constants of the program.                       *)
(***************************************************************************)
MaxTicks == 3

TickRateLimit == 1000

HelpMenuReserved == 8

\* Values of --tick-rate / --poll-rate as Option<u64>: <<>> is None (the flag
\* is absent or does not parse: value_of(..).and_then(parse().ok())), <<v>> is
\* Some(v).
TickFlags == {<<>>, <<0>>, <<200>>, <<300>>, <<1000>>}

PollFlags == {<<>>, <<0>>, <<250>>, <<500>>, <<1000>>}

\* Cli::new(): the defaults of the two rates.
CliDefaults == {[tick_rate |-> 250, poll_rate |-> 1000]}

Kinds == {"pods", "services"}

\* Results of one cluster query: a list of records, or a fetch error.
Results == {"r1"}

FetchError == "fetch_error"

Keys == {"CtrlC", "q", "down", "tab"}

\* Rect { width, height } values the terminal may report.
Sizes == {<<80, 5>>, <<80, 9>>}

DefaultRect == <<0, 0>>

Width(r) == r[1]

Height(r) == r[2]

(***************************************************************************)
(* Pure helpers.                                                           *)
(***************************************************************************)
\* A limit that lets the boundary value through.
TickRateTooHighOffByOne(tick_rate) == tick_rate > TickRateLimit

\* main.rs:87
TickRateTooHigh(tick_rate) == tick_rate >= TickRateLimit

\* main.rs:98 (u64 remainder; the caller has excluded tick_rate = 0)
PollRateRejected(poll_rate, tick_rate) == (poll_rate % tick_rate) > 0

\* A ratio one too large (a variant of TickPollRatio the properties must reject).
TickPollRatioOffByOne(c) == (c.poll_rate \div c.tick_rate) + 1

\* main.rs:111 (u64 division; the caller has excluded tick_rate = 0)
TickPollRatio(c) == c.poll_rate \div c.tick_rate

\* One line too many (a variant of HelpMenuMaxLines the properties must reject).
HelpMenuMaxLinesOffByOne(height) ==
  IF height > HelpMenuReserved - 1 THEN height - (HelpMenuReserved - 1) ELSE 0

\* main.rs:170-174
HelpMenuMaxLines(height) ==
  IF height > HelpMenuReserved THEN height - HelpMenuReserved ELSE 0

\* No key is the quit key (a variant of IsQuitKey the properties must reject).
IsQuitKeyNever(key) == FALSE

\* main.rs:185
IsQuitKey(key) == key = "CtrlC"

\* Newest first (a variant of Dequeue the properties must reject).
DequeueNewest(q) == [msg |-> q[Len(q)], rest |-> SubSeq(q, 1, Len(q) - 1)]

\* main.rs:133: recv() hands out the oldest message of the channel
Dequeue(q) == [msg |-> Head(q), rest |-> Tail(q)]

\* main.rs:45-71: the hook's effects in program order.  In a build without
\* debug_assertions the body is compiled out.
PanicHookTerm(t) ==
  IF debug_assertions
    THEN [t EXCEPT !.raw = FALSE, !.alt = FALSE, !.mouse = FALSE]
    ELSE t

\* The terminal mode at the time Print(..) runs: after disable_raw_mode() and
\* LeaveAlternateScreen, before DisableMouseCapture.
PanicHookDiag(t, d) ==
  IF debug_assertions
    THEN LET t1 == [t EXCEPT !.raw = FALSE]
             t2 == [t1 EXCEPT !.alt = FALSE]
         IN  [printed |-> TRUE, raw |-> t2.raw, alt |-> t2.alt]
    ELSE d

\* App::new(io_tx, enhanced_graphics, tick_until_poll)
AppNew(ratio, refresh) ==
  [tick_until_poll     |-> ratio,
   tick_count          |-> 0,
   should_quit         |-> FALSE,
   refresh             |-> refresh,
   size                |-> DefaultRect,
   help_menu_max_lines |-> 0,
   help_menu_offset    |-> 0,
   help_menu_page      |-> 0,
   is_loading          |-> FALSE,
   last_error          |-> None,
   tab                 |-> "pods",
   lists               |-> [k \in Kinds |-> "empty"]]

NoEvent == [kind |-> None, key |-> None, routed |-> FALSE, on_tick |-> FALSE,
            first |-> FALSE]

NoResize == [differed |-> FALSE, size |-> DefaultRect, old_offset |-> 0]

NoIoEvent == [id |-> 0, kind |-> None, result |-> None]

NoDiag == [printed |-> FALSE, raw |-> FALSE, alt |-> FALSE]

ExitPcs == {"exit_ok", "exit_err", "panicked"}

LoopPcs == {"loop_lock", "loop_lock_wait", "loop_size", "loop_draw", "loop_event"}

PostLoopPcs == {"post_loop", "exit_ok", "exit_err"}

(***************************************************************************)
(* The Selectable List behind every resource table.  The cursor is an      *)
(* Option<usize>: <<>> is none, <<i>> is Some(i), counted from 0.           *)
(***************************************************************************)
MaxLen == 3

Items == {"a", "b", "c"}

RECURSIVE SeqsUpTo(_)
SeqsUpTo(n) ==
  IF n = 0 THEN {<<>>}
  ELSE LET shorter == SeqsUpTo(n - 1)
       IN  shorter \cup {Append(q, x) : q \in {r \in shorter : Len(r) = n - 1},
                                         x \in Items}

ItemLists == SeqsUpTo(MaxLen)

NewList == [items |-> <<>>, index |-> <<>>, op |-> "new"]

\* select_next that stops at the last item instead of wrapping
SelectNextNoWrap(l) ==
  IF l.items = <<>> \/ l.index = <<>> THEN l
  ELSE IF l.index[1] >= Len(l.items) - 1 THEN l
  ELSE [l EXCEPT !.index = <<l.index[1] + 1>>]

\* select_next: one step forward, from the last item back to the first;
\* nothing to do on an empty list
SelectNext(l) ==
  IF l.items = <<>> \/ l.index = <<>> THEN l
  ELSE IF l.index[1] >= Len(l.items) - 1 THEN [l EXCEPT !.index = <<0>>]
  ELSE [l EXCEPT !.index = <<l.index[1] + 1>>]

\* select_previous: one step back, from the first item to the last
SelectPrevious(l) ==
  IF l.items = <<>> \/ l.index = <<>> THEN l
  ELSE IF l.index[1] = 0 THEN [l EXCEPT !.index = <<Len(l.items) - 1>>]
  ELSE [l EXCEPT !.index = <<l.index[1] - 1>>]

\* set_items: the contents are replaced; a cursor that has no valid position
\* in the new contents is reset (empty contents, or no cursor before) or
\* clamped to the last item
SetItems(l, new_items) ==
  [l EXCEPT !.items = new_items,
            !.index = IF new_items = <<>> THEN <<>>
                      ELSE IF l.index = <<>> THEN <<0>>
                      ELSE IF l.index[1] >= Len(new_items)
                        THEN <<Len(new_items) - 1>>
                      ELSE l.index]

\* selected(): the item under the cursor, or none
Selected(l) ==
  IF l.index = <<>> \/ l.items = <<>> THEN <<>>
  ELSE IF l.index[1] < Len(l.items) THEN <<l.items[l.index[1] + 1]>>
  ELSE <<>>

\* The process lives until main returns or the main thread panics.
ProcAlive == mainPc \notin ExitPcs

\* main.rs:105-119: the Sender sync_io_tx is moved into App, and App lives in
\* the Arc that main keeps as cloned_app and the network thread's closure
\* keeps as app.  The channel is open while some handle of the Arc is alive.
MainHoldsApp == mainPc \notin ({"tick_flag", "poll_flag", "new_app"} \cup ExitPcs)

WorkerHoldsApp == workerPc \notin {"unspawned", "panicked", "ended"}

SenderAlive == MainHoldsApp \/ WorkerHoldsApp

(***************************************************************************)
(* Initial state: the process has started, nothing has run yet.            *)
(***************************************************************************)
Init ==
  /\ debug_assertions \in BOOLEAN
  /\ cli \in CliDefaults
  /\ mainPc = "tick_flag"
  /\ app = AppNew(0, FALSE)
  /\ lock = "free"
  /\ io_queue = <<>>
  /\ workerPc = "unspawned"
  /\ io_event = NoIoEvent
  /\ term = [raw |-> FALSE, alt |-> FALSE, mouse |-> FALSE, cursor |-> TRUE]
  /\ liveSize \in Sizes
  /\ is_first_render = TRUE
  /\ diag = NoDiag
  /\ ticks = 0
  /\ enqLog = <<>>
  /\ begunLog = <<>>
  /\ doneLog = <<>>
  /\ lastEvent = NoEvent
  /\ resizeLog = NoResize
  /\ sl = NewList
  /\ pendingKey = None
  /\ consumed = FALSE

(***************************************************************************)
(* main: command-line validation, construction, spawn.                     *)
(***************************************************************************)
\* A panic of the main thread: the hook runs, the thread unwinds out of main
\* and the process ends.
MainPanics ==
  /\ mainPc' = "panicked"
  /\ term' = PanicHookTerm(term)
  /\ diag' = PanicHookDiag(term, diag)

\* main.rs:83-92
MainTickFlag ==
  /\ mainPc = "tick_flag"
  /\ \E v \in TickFlags :
       IF v = <<>>
         THEN /\ mainPc' = "poll_flag"
              /\ UNCHANGED <<cli, term, diag>>
         ELSE IF TickRateTooHigh(v[1])
           THEN /\ MainPanics
                /\ UNCHANGED cli
           ELSE /\ cli' = [cli EXCEPT !.tick_rate = v[1]]
                /\ mainPc' = "poll_flag"
                /\ UNCHANGED <<term, diag>>
  /\ UNCHANGED <<sl, pendingKey, consumed, debug_assertions, app, lock, io_queue, workerPc, io_event,
                 liveSize, is_first_render, ticks, enqLog, begunLog, doneLog,
                 lastEvent, resizeLog>>

\* main.rs:94-103.  poll_rate % 0 is a remainder by zero: the thread panics.
MainPollFlag ==
  /\ mainPc = "poll_flag"
  /\ \E v \in PollFlags :
       IF v = <<>>
         THEN /\ mainPc' = "new_app"
              /\ UNCHANGED <<cli, term, diag>>
         ELSE IF cli.tick_rate = 0 \/ PollRateRejected(v[1], cli.tick_rate)
           THEN /\ MainPanics
                /\ UNCHANGED cli
           ELSE /\ cli' = [cli EXCEPT !.poll_rate = v[1]]
                /\ mainPc' = "new_app"
                /\ UNCHANGED <<term, diag>>
  /\ UNCHANGED <<sl, pendingKey, consumed, debug_assertions, app, lock, io_queue, workerPc, io_event,
                 liveSize, is_first_render, ticks, enqLog, begunLog, doneLog,
                 lastEvent, resizeLog>>

\* main.rs:105-114.  poll_rate / 0 is a division by zero: the thread panics.
MainNewApp ==
  /\ mainPc = "new_app"
  /\ IF cli.tick_rate = 0
       THEN /\ MainPanics
            /\ UNCHANGED <<app, io_queue>>
       ELSE /\ \E refresh \in BOOLEAN : app' = AppNew(TickPollRatio(cli), refresh)
            /\ io_queue' = <<>>
            /\ mainPc' = "spawn"
            /\ UNCHANGED <<term, diag>>
  /\ UNCHANGED <<sl, pendingKey, consumed, debug_assertions, cli, lock, workerPc, io_event, liveSize,
                 is_first_render, ticks, enqLog, begunLog, doneLog, lastEvent,
                 resizeLog>>

\* main.rs:116-119
MainSpawn ==
  /\ mainPc = "spawn"
  /\ workerPc' = "get_client"
  /\ mainPc' = "ui_enter_alt"
  /\ UNCHANGED <<sl, pendingKey, consumed, debug_assertions, cli, app, lock, io_queue, io_event, term,
                 liveSize, is_first_render, diag, ticks, enqLog, begunLog, doneLog,
                 lastEvent, resizeLog>>

(***************************************************************************)
(* start_ui: terminal initialization.  Every call followed by `?` may      *)
(* fail, and then start_ui (and main) return the error at once.            *)
(***************************************************************************)
\* main.rs:143-144: execute!(stdout, EnterAlternateScreen, EnableMouseCapture)?
UiEnterAlt ==
  /\ mainPc = "ui_enter_alt"
  /\ \E outcome \in {"ok", "err_first", "err_second"} :
       /\ term' = CASE outcome = "ok" -> [term EXCEPT !.alt = TRUE, !.mouse = TRUE]
                    [] outcome = "err_first" -> term
                    [] outcome = "err_second" -> [term EXCEPT !.alt = TRUE]
       /\ mainPc' = IF outcome = "ok" THEN "ui_raw" ELSE "exit_err"
  /\ UNCHANGED <<sl, pendingKey, consumed, debug_assertions, cli, app, lock, io_queue, workerPc, io_event,
                 liveSize, is_first_render, diag, ticks, enqLog, begunLog, doneLog,
                 lastEvent, resizeLog>>

\* main.rs:146: enable_raw_mode()?
UiEnableRaw ==
  /\ mainPc = "ui_raw"
  /\ \E ok \in BOOLEAN :
       /\ term' = IF ok THEN [term EXCEPT !.raw = TRUE] ELSE term
       /\ mainPc' = IF ok THEN "ui_terminal" ELSE "exit_err"
  /\ UNCHANGED <<sl, pendingKey, consumed, debug_assertions, cli, app, lock, io_queue, workerPc, io_event,
                 liveSize, is_first_render, diag, ticks, enqLog, begunLog, doneLog,
                 lastEvent, resizeLog>>

\* main.rs:148-154: Terminal::new(backend)?, hide_cursor()?, clear()?,
\* Events::new, is_first_render = true
UiTerminalInit ==
  /\ mainPc = "ui_terminal"
  /\ \E outcome \in {"ok", "err_new", "err_hide", "err_clear"} :
       /\ term' = IF outcome \in {"ok", "err_clear"}
                    THEN [term EXCEPT !.cursor = FALSE]
                    ELSE term
       /\ mainPc' = IF outcome = "ok" THEN "loop_lock" ELSE "exit_err"
  /\ is_first_render' = TRUE
  /\ UNCHANGED <<sl, pendingKey, consumed, debug_assertions, cli, app, lock, io_queue, workerPc, io_event,
                 liveSize, diag, ticks, enqLog, begunLog, doneLog, lastEvent,
                 resizeLog>>

(***************************************************************************)
(* What app.rs and handlers.rs do to the App.                              *)
(***************************************************************************)
\* App::on_tick: increment the tick counter; the caller sends a refresh when
\* the counter is a multiple of the ratio.
OnTick(a) == [a EXCEPT !.tick_count = a.tick_count + 1]

RefreshDue(a) == a.tick_count % a.tick_until_poll = 0

\* App::dispatch: send the command for the active tab's resource kind.
Dispatch(a) == [a EXCEPT !.is_loading = TRUE]

OtherTab(tab) == IF tab = "pods" THEN "services" ELSE "pods"

\* handlers::handle_app: the keys the model follows.
HandleApp(key, a) ==
  CASE key = "q"    -> [a EXCEPT !.should_quit = TRUE]
    [] key = "down" -> [a EXCEPT !.help_menu_offset = 1, !.help_menu_page = 1]
    [] key = "tab"  -> [a EXCEPT !.tab = OtherTab(a.tab)]
    [] OTHER        -> a

(***************************************************************************)
(* start_ui: the render loop.                                              *)
(***************************************************************************)
\* A guard that is dropped as soon as the frame has been drawn.
GuardScopeUntilDraw == {"loop_size", "loop_draw"}

\* A guard that outlives the loop body and is still held at the next lock().
GuardScopeLeaked == {"loop_size", "loop_draw", "loop_event", "loop_lock"}

\* main.rs:157-201: `let mut app = app.lock().await` binds the MutexGuard for
\* the rest of the loop body; these are the positions at which the render
\* loop holds it.
GuardScope == {"loop_size", "loop_draw", "loop_event"}

\* A mutex that is simply freed, leaving a queued waiter to compete for it.
UnlockNoHandOff(waiter) == "free"

\* main.rs:27, 157: tokio::sync::Mutex grants the lock in the order of the
\* requests: dropping the guard passes the lock to the thread queued in
\* lock().await, if there is one ("free": there is none).
Unlock(waiter) == waiter

\* the lock after a step of the render loop that leaves it at position pc
UiGuard(pc) ==
  IF pc \in GuardScope THEN "ui"
  ELSE Unlock(IF workerPc = "lock_wait" THEN "worker" ELSE "free")

\* a hand-off completes the lock().await of the network thread
WokenWorker(l) == IF l = "worker" /\ workerPc = "lock_wait" THEN "write" ELSE workerPc

\* main.rs:157: app.lock().await.  The lock is taken if it is free; else the
\* loop queues for it and is resumed by the hand-off.
UiLock ==
  /\ mainPc \in {"loop_lock", "loop_lock_wait"}
  /\ IF lock = "free"
       THEN /\ lock' = "ui"
            /\ mainPc' = "loop_size"
       ELSE /\ mainPc = "loop_lock"
            /\ mainPc' = "loop_lock_wait"
            /\ lock' = lock
  /\ lastEvent' = NoEvent
  /\ UNCHANGED <<sl, pendingKey, consumed, debug_assertions, cli, app, io_queue, workerPc, io_event, term,
                 liveSize, is_first_render, diag, ticks, enqLog, begunLog, doneLog,
                 resizeLog>>

\* main.rs:159-176
UiSizeCheck ==
  /\ mainPc = "loop_size"
  /\ \E ok \in BOOLEAN :
       /\ app' = IF ok /\ (app.refresh \/ app.size # liveSize)
                   THEN [app EXCEPT !.help_menu_offset = 0,
                                    !.help_menu_page = 0,
                                    !.size = liveSize,
                                    !.help_menu_max_lines =
                                        HelpMenuMaxLines(Height(liveSize))]
                   ELSE app
       /\ resizeLog' = IF ok /\ app.size # liveSize
                         THEN [differed |-> TRUE, size |-> liveSize,
                               old_offset |-> app.help_menu_offset]
                         ELSE NoResize
  /\ mainPc' = "loop_draw"
  /\ lock' = UiGuard("loop_draw")
  /\ workerPc' = WokenWorker(lock')
  /\ UNCHANGED <<sl, pendingKey, consumed, debug_assertions, cli, io_queue, io_event, term,
                 liveSize, is_first_render, diag, ticks, enqLog, begunLog, doneLog,
                 lastEvent>>

\* main.rs:179: terminal.draw(|f| ui::draw(f, &mut app))?  An error returns
\* from start_ui (the guard is dropped); a fault inside the closure panics.
UiDraw ==
  /\ mainPc = "loop_draw"
  /\ \E outcome \in {"ok", "err", "panic"} :
       CASE outcome = "ok" ->
              /\ mainPc' = "loop_event"
              /\ lock' = UiGuard("loop_event")
              /\ workerPc' = WokenWorker(lock')
              /\ UNCHANGED <<term, diag>>
         [] outcome = "err" ->
              /\ mainPc' = "exit_err"
              /\ lock' = "free"
              /\ UNCHANGED <<workerPc, term, diag>>
         [] outcome = "panic" ->
              /\ MainPanics
              /\ lock' = "free"
              /\ UNCHANGED workerPc
  /\ resizeLog' = NoResize
  /\ UNCHANGED <<sl, pendingKey, consumed, debug_assertions, cli, app, io_queue, io_event,
                 liveSize, is_first_render, ticks, enqLog, begunLog, doneLog,
                 lastEvent>>

\* main.rs:182, 191-200: events.next()? yields Tick
\* An event source that lets the timeout win over a key that is available.
EventsNextTickFirst(pending) == [kind |-> "tick", key |-> None]

\* Events::next: Input(key) if a key became available before the timeout of
\* the window, else Tick
EventsNext(pending) ==
  IF pending # None THEN [kind |-> "input", key |-> pending]
  ELSE [kind |-> "tick", key |-> None]

\* A flag that is cleared by a Tick only.
NextFirstRenderTickOnly(kind, cur) == IF kind = "tick" THEN FALSE ELSE cur

\* main.rs:196: is_first_render = false, after the match, whatever the event
NextFirstRender(kind, cur) == FALSE

\* the user presses a key while the loop waits in events.next()
KeyArrives ==
  /\ mainPc = "loop_event"
  /\ pendingKey = None
  /\ \E key \in Keys : pendingKey' = key
  /\ UNCHANGED <<sl, consumed, debug_assertions, cli, mainPc, app, lock, io_queue,
                 workerPc, io_event, term, liveSize, is_first_render, diag, ticks,
                 enqLog, begunLog, doneLog, lastEvent, resizeLog>>

UiEventTick ==
  /\ mainPc = "loop_event"
  /\ EventsNext(pendingKey).kind = "tick"
  /\ pendingKey' = None
  /\ consumed' = TRUE
  /\ ticks < MaxTicks
  /\ ticks' = ticks + 1
  /\ lastEvent' = [kind |-> "tick", key |-> None, routed |-> FALSE,
                   on_tick |-> TRUE, first |-> is_first_render]
  /\ IF app.tick_until_poll = 0
       THEN \* remainder by zero inside on_tick
            /\ MainPanics
            /\ UNCHANGED <<app, io_queue, enqLog, is_first_render>>
       ELSE /\ LET a1 == OnTick(app)
                   id == Len(enqLog) + 1
               IN  IF RefreshDue(a1)
                     THEN /\ app' = Dispatch(a1)
                          /\ io_queue' = Append(io_queue, [id |-> id, kind |-> a1.tab])
                          /\ enqLog' = Append(enqLog, id)
                     ELSE /\ app' = a1
                          /\ UNCHANGED <<io_queue, enqLog>>
            /\ is_first_render' = NextFirstRender("tick", is_first_render)
            /\ mainPc' = IF app'.should_quit THEN "post_loop" ELSE "loop_lock"
            /\ UNCHANGED <<term, diag>>
  /\ lock' = UiGuard(mainPc')
  /\ workerPc' = WokenWorker(lock')
  /\ UNCHANGED <<sl, debug_assertions, cli, io_event, liveSize, begunLog,
                 doneLog, resizeLog>>

\* main.rs:182-190, 196-200: events.next()? yields Input(key)
UiEventInput ==
  /\ mainPc = "loop_event"
  /\ EventsNext(pendingKey).kind = "input"
  /\ pendingKey' = None
  /\ consumed' = TRUE
  /\ LET key == EventsNext(pendingKey).key IN
       IF IsQuitKey(key)
         THEN /\ lastEvent' = [kind |-> "input", key |-> key, routed |-> FALSE,
                               on_tick |-> FALSE, first |-> is_first_render]
              /\ mainPc' = "post_loop"
              /\ UNCHANGED <<app, is_first_render>>
         ELSE /\ lastEvent' = [kind |-> "input", key |-> key, routed |-> TRUE,
                               on_tick |-> FALSE, first |-> is_first_render]
              /\ app' = HandleApp(key, app)
              /\ is_first_render' = NextFirstRender("input", is_first_render)
              /\ mainPc' = IF app'.should_quit THEN "post_loop" ELSE "loop_lock"
  /\ lock' = UiGuard(mainPc')
  /\ workerPc' = WokenWorker(lock')
  /\ UNCHANGED <<sl, debug_assertions, cli, io_queue, io_event, term,
                 liveSize, diag, ticks, enqLog, begunLog, doneLog, resizeLog>>

\* main.rs:182: events.next()? fails
UiEventError ==
  /\ mainPc = "loop_event"
  /\ mainPc' = "exit_err"
  /\ lock' = "free"
  /\ UNCHANGED <<sl, pendingKey, consumed, debug_assertions, cli, app, io_queue, workerPc, io_event, term,
                 liveSize, is_first_render, diag, ticks, enqLog, begunLog, doneLog,
                 lastEvent, resizeLog>>

\* main.rs:203-206 and 34-43: terminal.show_cursor()?; shutdown(terminal)?;
\* Ok(()).  `failed` is the call that fails (0: none): 1 show_cursor (203),
\* 2 disable_raw_mode (35), 3 execute!(LeaveAlternateScreen,
\* DisableMouseCapture) (36-40), 4 show_cursor (41).
UiRestore ==
  /\ mainPc = "post_loop"
  /\ \E failed \in 0..4 :
       /\ term' = CASE failed = 1 -> term
                    [] failed = 2 -> [term EXCEPT !.cursor = TRUE]
                    [] failed = 3 -> [term EXCEPT !.cursor = TRUE, !.raw = FALSE]
                    [] OTHER -> [term EXCEPT !.cursor = TRUE, !.raw = FALSE,
                                             !.alt = FALSE, !.mouse = FALSE]
       /\ mainPc' = IF failed = 0 THEN "exit_ok" ELSE "exit_err"
  /\ UNCHANGED <<sl, pendingKey, consumed, debug_assertions, cli, app, lock, io_queue, workerPc, io_event,
                 liveSize, is_first_render, diag, ticks, enqLog, begunLog, doneLog,
                 lastEvent, resizeLog>>

\* The user resizes the terminal window.
TermResize ==
  /\ mainPc \in LoopPcs
  /\ \E s \in Sizes \ {liveSize} : liveSize' = s
  /\ UNCHANGED <<sl, pendingKey, consumed, debug_assertions, cli, mainPc, app, lock, io_queue, workerPc,
                 io_event, term, is_first_render, diag, ticks, enqLog, begunLog,
                 doneLog, lastEvent, resizeLog>>

(***************************************************************************)
(* start_tokio: the network thread.                                        *)
(***************************************************************************)
\* main.rs:129-131, 137: get_client().await
WorkerGetClient ==
  /\ ProcAlive
  /\ workerPc = "get_client"
  /\ \E ok \in BOOLEAN :
       IF ok
         THEN /\ workerPc' = "recv"
              /\ UNCHANGED <<term, diag>>
         ELSE /\ workerPc' = "panicked"
              /\ term' = PanicHookTerm(term)
              /\ diag' = PanicHookDiag(term, diag)
  /\ UNCHANGED <<sl, pendingKey, consumed, debug_assertions, cli, mainPc, app, lock, io_queue, io_event,
                 liveSize, is_first_render, ticks, enqLog, begunLog, doneLog,
                 lastEvent, resizeLog>>

\* main.rs:133: while let Ok(io_event) = io_rx.recv().  recv() blocks while
\* the channel is empty and open, and returns Err once it is empty and every
\* Sender has been dropped: the loop and the thread end.
WorkerRecv ==
  /\ ProcAlive
  /\ workerPc = "recv"
  /\ IF io_queue # <<>>
       THEN LET d == Dequeue(io_queue)
            IN  /\ io_event' = [id |-> d.msg.id, kind |-> d.msg.kind,
                                result |-> None]
                /\ io_queue' = d.rest
                /\ begunLog' = Append(begunLog, d.msg.id)
                /\ workerPc' = "query"
       ELSE /\ ~SenderAlive
            /\ workerPc' = "ended"
            /\ UNCHANGED <<io_event, io_queue, begunLog>>
  /\ UNCHANGED <<sl, pendingKey, consumed, debug_assertions, cli, mainPc, app, lock, term, liveSize,
                 is_first_render, diag, ticks, enqLog, doneLog, lastEvent,
                 resizeLog>>

\* A worker that takes the lock first and queries the cluster while it
\* holds it.
WorkerQueryUnderLock ==
  /\ ProcAlive
  /\ workerPc = "query"
  /\ IF lock = "worker"
       THEN /\ \E r \in Results \cup {FetchError} :
                 io_event' = [io_event EXCEPT !.result = r]
            /\ workerPc' = "write"
            /\ lock' = lock
       ELSE /\ lock = "free"
            /\ lock' = "worker"
            /\ UNCHANGED <<io_event, workerPc>>
  /\ UNCHANGED <<sl, pendingKey, consumed, debug_assertions, cli, mainPc, app, io_queue, term,
                 liveSize, is_first_render, diag, ticks, enqLog, begunLog, doneLog,
                 lastEvent, resizeLog>>

\* main.rs:134, Network::handle_network_event: the cluster query, made
\* without the lock
WorkerQuery ==
  /\ ProcAlive
  /\ workerPc = "query"
  /\ \E r \in Results \cup {FetchError} : io_event' = [io_event EXCEPT !.result = r]
  /\ workerPc' = "lock"
  /\ UNCHANGED <<sl, pendingKey, consumed, debug_assertions, cli, mainPc, app, lock, io_queue, term,
                 liveSize, is_first_render, diag, ticks, enqLog, begunLog, doneLog,
                 lastEvent, resizeLog>>

\* Network::handle_network_event: self.app.lock().await
WorkerLock ==
  /\ ProcAlive
  /\ workerPc \in {"lock", "lock_wait"}
  /\ IF lock = "free"
       THEN /\ lock' = "worker"
            /\ workerPc' = "write"
       ELSE /\ workerPc = "lock"
            /\ workerPc' = "lock_wait"
            /\ lock' = lock
  /\ UNCHANGED <<sl, pendingKey, consumed, debug_assertions, cli, mainPc, app, io_queue, io_event, term,
                 liveSize, is_first_render, diag, ticks, enqLog, begunLog, doneLog,
                 lastEvent, resizeLog>>

\* A write-back that also empties the list of the kind whose fetch failed.
WriteBackClearsOnError(a, ev) ==
  IF ev.result = FetchError
    THEN [a EXCEPT !.lists[ev.kind] = "empty", !.last_error = FetchError,
                   !.is_loading = FALSE]
    ELSE [a EXCEPT !.lists[ev.kind] = ev.result, !.last_error = None,
                   !.is_loading = FALSE]

\* Network::handle_network_event, the write-back of one command's outcome:
\* a failure only records the error; a success replaces the list of the
\* fetched kind and clears the error.
WriteBack(a, ev) ==
  IF ev.result = FetchError
    THEN [a EXCEPT !.last_error = FetchError, !.is_loading = FALSE]
    ELSE [a EXCEPT !.lists[ev.kind] = ev.result, !.last_error = None,
                   !.is_loading = FALSE]

\* Network::handle_network_event: the write-back, then the guard is dropped
\* and the call returns to the receive loop
WorkerWrite ==
  /\ ProcAlive
  /\ workerPc = "write"
  /\ app' = WriteBack(app, io_event)
  /\ lock' = Unlock(IF mainPc = "loop_lock_wait" THEN "ui" ELSE "free")
  /\ mainPc' = IF lock' = "ui" THEN "loop_size" ELSE mainPc
  /\ doneLog' = Append(doneLog, io_event.id)
  /\ io_event' = NoIoEvent
  /\ workerPc' = "recv"
  /\ UNCHANGED <<sl, pendingKey, consumed, debug_assertions, cli, io_queue, term, liveSize,
                 is_first_render, diag, ticks, enqLog, begunLog, lastEvent,
                 resizeLog>>

Next ==
  \/ MainTickFlag
  \/ MainPollFlag
  \/ MainNewApp
  \/ MainSpawn
  \/ UiEnterAlt
  \/ UiEnableRaw
  \/ UiTerminalInit
  \/ UiLock
  \/ UiSizeCheck
  \/ UiDraw
  \/ KeyArrives
  \/ UiEventTick
  \/ UiEventInput
  \/ UiEventError
  \/ UiRestore
  \/ TermResize
  \/ WorkerGetClient
  \/ WorkerRecv
  \/ WorkerQuery
  \/ WorkerLock
  \/ WorkerWrite

Spec == Init /\ [][Next]_vars

(***************************************************************************)
(* The two threads from the spawn on, for an accepted configuration, with   *)
(* the scheduling the program runs under: the main thread and the network   *)
(* thread are OS threads, and each of them that can take a step eventually  *)
(* does (events.next() returns by the end of its window at the latest).     *)
(* Key presses are the user's and are not forced.                           *)
(***************************************************************************)
InitRun ==
  /\ debug_assertions \in BOOLEAN
  /\ cli = [tick_rate |-> 250, poll_rate |-> 500]
  /\ mainPc = "spawn"
  /\ \E refresh \in BOOLEAN : app = AppNew(TickPollRatio(cli), refresh)
  /\ lock = "free"
  /\ io_queue = <<>>
  /\ workerPc = "unspawned"
  /\ io_event = NoIoEvent
  /\ term = [raw |-> FALSE, alt |-> FALSE, mouse |-> FALSE, cursor |-> TRUE]
  /\ liveSize \in Sizes
  /\ is_first_render = TRUE
  /\ diag = NoDiag
  /\ ticks = 0
  /\ enqLog = <<>>
  /\ begunLog = <<>>
  /\ doneLog = <<>>
  /\ lastEvent = NoEvent
  /\ resizeLog = NoResize
  /\ sl = NewList
  /\ pendingKey = None
  /\ consumed = FALSE

MainThread ==
  \/ MainSpawn
  \/ UiEnterAlt
  \/ UiEnableRaw
  \/ UiTerminalInit
  \/ UiLock
  \/ UiSizeCheck
  \/ UiDraw
  \/ UiEventTick
  \/ UiEventInput
  \/ UiEventError
  \/ UiRestore

WorkerThread ==
  \/ WorkerGetClient
  \/ WorkerRecv
  \/ WorkerQuery
  \/ WorkerLock
  \/ WorkerWrite

NextRun ==
  \/ MainThread
  \/ WorkerThread
  \/ KeyArrives

SpecRun ==
  InitRun /\ [][NextRun]_vars /\ WF_vars(MainThread) /\ WF_vars(WorkerThread)

(***************************************************************************)
(* The Selectable List on its own: any sequence of calls on one list.      *)
(***************************************************************************)
SlSelectNext ==
  /\ sl' = [SelectNext(sl) EXCEPT !.op = "select_next"]
  /\ UNCHANGED progVars

SlSelectPrevious ==
  /\ sl' = [SelectPrevious(sl) EXCEPT !.op = "select_previous"]
  /\ UNCHANGED progVars

SlSetItems ==
  /\ \E new_items \in ItemLists :
       sl' = [SetItems(sl, new_items) EXCEPT !.op = "set_items"]
  /\ UNCHANGED progVars

NextList ==
  \/ SlSelectNext
  \/ SlSelectPrevious
  \/ SlSetItems

SpecList == Init /\ [][NextList]_vars

(***************************************************************************)
(* Properties.                                                             *)
(***************************************************************************)
\* Startup validation has let the configuration through.
Validated == mainPc \notin {"tick_flag", "poll_flag", "panicked"}
               \/ (mainPc = "panicked" /\ workerPc # "unspawned")

Started == mainPc \notin {"tick_flag", "poll_flag", "new_app"}

IsPrefix(s, t) == Len(s) <= Len(t) /\ SubSeq(t, 1, Len(s)) = s

TerminalRestored == ~term.raw /\ ~term.alt /\ term.cursor

\* A thread panics in this step.
PanicStep ==
  \/ mainPc # "panicked" /\ mainPc' = "panicked"
  \/ workerPc # "panicked" /\ workerPc' = "panicked"

\* C1: when the poll interval P is k times the tick interval T (k >= 1), the
\* number of refresh commands sent so far is the number of Ticks consumed so far
\* divided by k (rounded down): one command every k Ticks, none in between, and
\* none for an Input event.  Stated on the elapsed time: with n commands sent
\* after `ticks` Ticks, n*P <= ticks*T < (n+1)*P.
C1_RefreshOncePerRatioTicks ==
  (Started /\ cli.tick_rate > 0 /\ cli.poll_rate >= cli.tick_rate
           /\ cli.poll_rate % cli.tick_rate = 0)
    => /\ Len(enqLog) * cli.poll_rate <= ticks * cli.tick_rate
       /\ ticks * cli.tick_rate < (Len(enqLog) + 1) * cli.poll_rate

\* C1 witness: with P = 2T, three Ticks have been consumed and one command sent.
C1_Witness ==
  /\ cli.poll_rate = 2 * cli.tick_rate
  /\ ticks = 3
  /\ Len(enqLog) = 1
  /\ mainPc = "loop_lock"

\* C2: the worker receives the commands in the order they were sent, the
\* channel holds exactly the commands sent and not yet received, in send order,
\* and the worker receives a command only when the handling of every command it
\* received before has completed.
C2_WorkerHandlesInEnqueueOrder ==
  /\ IsPrefix(begunLog, enqLog)
  /\ IsPrefix(doneLog, begunLog)
  /\ Len(begunLog) - Len(doneLog) <= 1
  /\ workerPc = "recv" => doneLog = begunLog
  /\ [i \in 1..Len(io_queue) |-> io_queue[i].id]
       = SubSeq(enqLog, Len(begunLog) + 1, Len(enqLog))

\* C2 witness: three commands were sent while the first was still being
\* handled; the worker has begun all three and completed the first two.
C2_Witness ==
  /\ enqLog = <<1, 2, 3>>
  /\ begunLog = <<1, 2, 3>>
  /\ doneLog = <<1, 2>>

\* C3 (as claimed): once the quit flag is set or the render loop has exited,
\* no step changes the shared App any more.
C3_NoWriteAfterQuit ==
  [][(app.should_quit \/ mainPc \in PostLoopPcs) => app' = app]_vars

\* C4 (as claimed): whenever start_ui has returned, with Ok or with an error,
\* the terminal is out of raw mode, out of the alternate screen, and shows the
\* cursor.
C4_TerminalRestoredOnEveryExit ==
  mainPc \in {"exit_ok", "exit_err"} => TerminalRestored

\* C5 (as claimed): a panic of either thread while the terminal is in raw mode
\* or in the alternate screen leaves it in neither, and the diagnostic text is
\* printed, after the terminal was restored, in every build configuration.
C5_PanicRestoresTerminal ==
  [][(PanicStep /\ (term.raw \/ term.alt))
       => (~term'.raw /\ ~term'.alt /\ diag'.printed /\ ~diag'.raw /\ ~diag'.alt)]_vars

\* C6 (as claimed): once obtaining the client has failed, the main thread takes
\* no further step: it renders no frame and sends no command.
C6_ClientFailureStopsRenderLoop ==
  [][workerPc = "panicked" => (mainPc' = mainPc /\ io_queue' = io_queue)]_vars

\* C7 (as claimed): every configuration that startup validation lets through
\* has a poll rate that is an exact multiple of the tick rate.
C7_AcceptedPollIsMultipleOfTick ==
  Validated => IF cli.tick_rate = 0
                 THEN cli.poll_rate = 0
                 ELSE cli.poll_rate % cli.tick_rate = 0

\* C8 (as claimed): for every configuration that startup validation lets
\* through, the divisor tick_rate is not zero and poll_rate / tick_rate >= 1.
C8_AcceptedRatioIsDefinedAndPositive ==
  Validated => (cli.tick_rate # 0 /\ cli.poll_rate \div cli.tick_rate >= 1)

\* C9: when the size check of an iteration has found the live size different
\* from the cached one, then from that check until the frame is drawn the
\* cached size is the reported size, the help menu shows max(0, H - 8) lines for
\* the reported height H, and its offset and page are 0.
C9_ResizeResetsHelpMenu ==
  (mainPc = "loop_draw" /\ resizeLog.differed)
    => /\ app.size = resizeLog.size
       /\ app.help_menu_max_lines =
            (IF Height(resizeLog.size) - 8 > 0 THEN Height(resizeLog.size) - 8 ELSE 0)
       /\ app.help_menu_offset = 0
       /\ app.help_menu_page = 0

\* C9 witness: a resize to height 9 was seen while the help menu was scrolled.
C9_Witness ==
  /\ mainPc = "loop_draw"
  /\ resizeLog.differed
  /\ resizeLog.old_offset = 1
  /\ Height(resizeLog.size) = 9
  /\ app.help_menu_max_lines = 1

C11_SenderDroppedOnShutdown ==
  mainPc = "exit_ok" => ~SenderAlive

\* C12: a write-back of a failed fetch sets last_error and leaves every list
\* and the active tab as they were; a write-back of a successful fetch
\* replaces the list of the fetched kind only, leaves the other lists and the
\* active tab alone and clears last_error.
C12_WriteBackTouchesOnlyItsKind ==
  [][(workerPc = "write" /\ workerPc' = "recv") =>
       /\ app'.tab = app.tab
       /\ \A k \in Kinds \ {io_event.kind} : app'.lists[k] = app.lists[k]
       /\ IF io_event.result = FetchError
            THEN /\ app'.last_error = FetchError
                 /\ app'.lists = app.lists
            ELSE /\ app'.last_error = None
                 /\ app'.lists[io_event.kind] = io_event.result]_vars

\* a failure was written back after a success: the fetched list survived it
C12_Witness ==
  /\ Len(doneLog) >= 2
  /\ app.last_error = FetchError
  /\ \E k \in Kinds : app.lists[k] \in Results

\* C13: after any sequence of select_next, select_previous and set_items a
\* list of length N > 0 has its cursor in [0, N), select_next at N-1 yields 0
\* and select_previous at 0 yields N-1; a list of length 0 has selected() =
\* none and select_next / select_previous change nothing.
C13_CursorValidAndWraps ==
  /\ [](LET N == Len(sl.items)
        IN  IF N = 0 THEN Selected(sl) = <<>>
            ELSE /\ sl.index # <<>>
                 /\ sl.index[1] \in 0..(N - 1)
                 /\ Selected(sl) = <<sl.items[sl.index[1] + 1]>>)
  /\ [][LET N == Len(sl.items)
        IN  /\ (sl'.op = "select_next" /\ N > 0 /\ sl.index = <<N - 1>>)
                 => sl'.index = <<0>>
            /\ (sl'.op = "select_previous" /\ N > 0 /\ sl.index = <<0>>)
                 => sl'.index = <<N - 1>>
            /\ (sl'.op \in {"select_next", "select_previous"} /\ N = 0)
                 => (sl'.items = sl.items /\ sl'.index = sl.index)]_vars

\* select_next has just wrapped a three-item list from its last item to its
\* first
C13_Witness ==
  /\ Len(sl.items) = MaxLen
  /\ sl.op = "select_next"
  /\ sl.index = <<0>>

\* C14: every iteration of the render loop consumes exactly one event, and
\* that event is Input(key) when a key became available in the window and
\* Tick otherwise: a pending key is never passed over for a Tick, and a key
\* is delivered once.
C14_OneEventPerIterationInputFirst ==
  /\ [](mainPc \in {"loop_size", "loop_draw", "loop_event"} => lastEvent = NoEvent)
  /\ [][(mainPc = "loop_event" /\ mainPc' \notin {"loop_event", "exit_err", "panicked"})
         => /\ lastEvent'.kind \in {"input", "tick"}
            /\ lastEvent'.kind = "input" <=> pendingKey # None
            /\ lastEvent'.key = pendingKey
            /\ pendingKey' = None]_vars

\* a key arrived in the window after two Ticks and is about to be delivered
C14_Witness ==
  /\ mainPc = "loop_event"
  /\ pendingKey \in Keys
  /\ ticks >= 2

\* C15: from the lock().await at the start of an iteration through the size
\* check, the draw and the wait for the event, the render loop holds the
\* lock; the worker is never inside its write-back then, and no write-back
\* completes during these steps.
C15_LockHeldThroughIteration ==
  /\ [](mainPc \in {"loop_size", "loop_draw", "loop_event"}
          => (lock = "ui" /\ workerPc # "write"))
  /\ [][(mainPc \in {"loop_size", "loop_draw", "loop_event"})
          => (doneLog' = doneLog)]_vars

\* the worker has a result and waits for the lock while a frame is drawn
C15_Witness ==
  /\ mainPc = "loop_draw"
  /\ workerPc = "lock_wait"
  /\ io_event.result # None

\* C16: the lock never deadlocks.  Whoever holds it is inside its critical
\* section, which it leaves without waiting for the other thread; a thread
\* that waits for the lock waits for the other one, never for itself, and
\* the two never wait at once.
C16_NoDeadlock ==
  ProcAlive =>
    /\ lock = "ui" => mainPc \in {"loop_size", "loop_draw", "loop_event"}
    /\ lock = "worker" => workerPc = "write"
    /\ mainPc = "loop_lock_wait" => lock = "worker"
    /\ workerPc = "lock_wait" => lock = "ui"
    /\ ~(mainPc = "loop_lock_wait" /\ workerPc = "lock_wait")

\* the render loop is queued behind a write-back of the worker
C16_Witness ==
  /\ mainPc = "loop_lock_wait"
  /\ lock = "worker"
  /\ workerPc = "write"

\* C17: a worker that waits for the lock gets it (or the process ends),
\* however the render loop keeps iterating.
C17_WaitingWorkerGetsLock ==
  (ProcAlive /\ workerPc = "lock_wait") ~> (workerPc = "write" \/ ~ProcAlive)

\* the worker waits for the lock while a running loop waits for its event
C17_Witness ==
  /\ workerPc = "lock_wait"
  /\ mainPc = "loop_event"
  /\ ticks >= 1

\* C18: the worker holds the lock only inside its write-back: never while it
\* waits for a command, and never while the cluster query is in flight.
C18_WorkerLocksOnlyToWrite ==
  /\ workerPc \in {"get_client", "recv", "query", "lock"} => lock # "worker"
  /\ lock = "worker" => workerPc = "write"

\* a query is in flight while the render loop holds the lock
C18_Witness ==
  /\ workerPc = "query"
  /\ lock = "ui"
  /\ mainPc = "loop_event"

\* C19: a configuration error is raised before anything is set up.  A panic
\* of the flag validation leaves the worker unspawned, the queue without a
\* command and the terminal in its normal mode on the primary screen; and
\* whenever the queue exists, the worker runs or the terminal is switched,
\* the tick rate is below the limit.
C19_ConfigErrorBeforeSetup ==
  /\ []((Started \/ workerPc # "unspawned" \/ term.raw \/ term.alt)
          => cli.tick_rate < TickRateLimit)
  /\ [][(mainPc \in {"tick_flag", "poll_flag"} /\ mainPc' = "panicked")
          => /\ workerPc' = "unspawned"
             /\ io_queue' = <<>> /\ enqLog' = <<>>
             /\ app' = AppNew(0, FALSE)
             /\ ~term'.raw /\ ~term'.alt /\ ~term'.mouse]_vars

\* the poll rate given with an accepted tick rate of 300 was rejected
C19_Witness ==
  /\ mainPc = "panicked"
  /\ workerPc = "unspawned"
  /\ cli.tick_rate = 300
  /\ ~term.raw /\ ~term.alt

\* C20: an iteration that consumes an Input does not call on_tick: the tick
\* counter does not advance and no refresh command is sent.  An iteration
\* that consumes a Tick calls on_tick with the first-render flag true exactly
\* when no earlier iteration has consumed an event.
C20_InputSkipsTickAndFirstRenderOnce ==
  [][(mainPc = "loop_event" /\ lastEvent'.kind # None)
       => IF lastEvent'.kind = "input"
            THEN /\ ~lastEvent'.on_tick
                 /\ ticks' = ticks
                 /\ app'.tick_count = app.tick_count
                 /\ io_queue' = io_queue /\ enqLog' = enqLog
            ELSE /\ lastEvent'.on_tick
                 /\ lastEvent'.first <=> ~consumed]_vars

\* the first Tick comes after an Input: on_tick got first-render = false
C20_Witness ==
  /\ lastEvent.kind = "tick"
  /\ lastEvent.on_tick
  /\ ~lastEvent.first
  /\ ticks = 1

====
